---- MODULE Spec2Model ----
(***************************************************************************)
(* Video Watcher Automation Tool: one process that runs one watch session. *)
(*                                                                         *)
(* The model follows the control flow of an entry point (main.py main, or  *)
(* ui/server.py start_session) through VideoWatcher.initialize_components, *)
(* VideoWatcher.run_session, BrowserAutomation.simulate_video_watching and *)
(* VideoWatcher.cleanup.  Every call on a collaborator (browser driver,    *)
(* Tor controller, telemetry HTTP session) is a step whose outcome (it     *)
(* returns, or it raises) is chosen nondeterministically.  Time is counted *)
(* in tenths of a second; a session's sleeps all draw the same endpoint of *)
(* their range (the shortest, or the longest, session the draws allow).    *)
(*                                                                         *)
(* The pure functions of utils.py (generate_random_delay,                  *)
(* should_perform_action, generate_human_like_mouse_movement and its       *)
(* _generate_bezier_curve) are operators; UtilsSpec calls each of them on  *)
(* its own, with arguments drawn from bounded sets.                        *)
(*                                                                         *)
(* ServerSpec follows two POST /api/start requests through start_session   *)
(* under the development server that ui/server.py main starts, each        *)
(* request with the VideoWatcher it constructs.                            *)
(***************************************************************************)
EXTENDS Integers, Sequences, FiniteSets, TLC

VARIABLES
    entry,          \* which entry point runs: "cli" (main.py) or "server" (ui/server.py)
    args,           \* the argparse.Namespace / Args object given to VideoWatcher
    Config,         \* the process-wide Config class attributes the session reads
    pc,             \* position of the single thread of control
    tor_manager,    \* VideoWatcher.tor_manager and its controller
    browser,        \* VideoWatcher.browser and its driver
    socionator,     \* VideoWatcher.socionator and its HTTP session
    session_data,   \* VideoWatcher.session_data
    calls,          \* the release methods cleanup has called, in order
    events,         \* what the telemetry endpoint was sent, in order
    now,            \* time.time(), in tenths of a second
    pace,           \* which endpoint of its range random.uniform returns
    selector,       \* index of the selector _find_video_element is trying
    video_element,  \* selector index of the element found, 0 for None
    watch_time,     \* simulate_video_watching's watch_time (<<>> is None)
    start_time,     \* simulate_video_watching's loop counter start_time
    success,        \* run_session's local success: what simulate_video_watching returned
    returned,       \* what run_session returned to the entry point
    raised,         \* the exception that left the entry point, if any
    status,         \* how the entry point finished
    hist,           \* history of the session, for stating properties
    call,           \* the utils.py function called on its own, with its arguments
    delay,          \* what generate_random_delay returned (<<>> before it returns)
    fired,          \* what should_perform_action returned (<<>> before it returns)
    points,         \* the list _generate_bezier_curve returned (<<>> before it returns)
    actions,        \* the offsets given to ActionChains.move_by_offset, in order
    pointer,        \* where the pointer is once ActionChains.perform has run
    threaded,       \* whether app.run serves each request in a thread of its own
    handlers        \* per request: where start_session is, and its watcher's state

\* what Init chooses and no step changes
inputs == << entry, args, Config, pace >>

\* the state of a direct call of a utils.py function
utils == << call, delay, fired, points, actions, pointer >>

\* the state of the web server's request handlers
server == << threaded, handlers >>

\* the state of the session
session == << pc, tor_manager, browser, socionator, session_data, calls, events, now,
              selector, video_element, watch_time, start_time, success, returned,
              raised, status, hist >>

vars == << entry, args, Config, pc, tor_manager, browser, socionator,
           session_data, calls, events, now, pace, selector, video_element,
           watch_time, start_time, success, returned, raised, status, hist,
           call, delay, fired, points, actions, pointer, threaded, handlers >>

(***************************************************************************)
(* Bounds of the model.                                                    *)
(***************************************************************************)
MaxExplicitWatch == 20
MaxSampledWatch == 7

None == << >>
Some(v) == << v >>

\* --watch-time values tried besides its absence: negative, zero, one or
\* two ticks long, several ticks long
ExplicitWatchTimes == { -5, 0, MaxSampledWatch, MaxExplicitWatch }

\* (MIN_WATCH_TIME, MAX_WATCH_TIME) settings tried.
WatchRanges == { << MaxSampledWatch - 1, MaxSampledWatch >>,
                 << MaxSampledWatch, MaxSampledWatch - 1 >> }

\* (SCROLL_PROBABILITY, CLICK_PROBABILITY) settings tried, in tenths: the
\* extremes, the defaults, and a pair outside [0, 1] (1.2 and -0.1).
ValidProbabilities == { << 10, 0 >>, << 3, 2 >> }

Probabilities == ValidProbabilities \cup { << 12, -1 >> }

\* random.random() returns a float in [0, 1): the draws tried, in tenths.
Draws == 0 .. 9

\* time.time() when the process starts, in tenths of a second
StartTimes == { 7 }

\* the results of random.randint(5, 15) tried for the tick interval
TickDraws == { 5, 10, 15 }

VideoUrls == { "", "https://example.com/v1" }

\* the selectors with the Vimeo frame moved to the front
selectors_vimeo_first ==
    << "iframe[src*='vimeo']", "video", "iframe[src*='youtube']", "#movie_player" >>

\* the selectors of _find_video_element, in list order
selectors == << "video", "iframe[src*='youtube']", "iframe[src*='vimeo']", "#movie_player" >>

(***************************************************************************)
(* Pure helpers.                                                           *)
(***************************************************************************)
Min(a, b) == IF a < b THEN a ELSE b

\* int(time.time()): whole seconds of a clock kept in tenths
IntTime(t) == t \div 10

\* generate_random_delay(min_delay, max_delay), in tenths of a second.
\* A falsy argument (None or 0) is replaced by the Config default.  The
\* draw of random.uniform(a, b) is the endpoint the pace names, or the
\* midpoint of a and b.
uniform(a, b) ==
    CASE pace = "shortest" -> a
      [] pace = "longest" -> b
      [] OTHER -> (a + b) \div 2

generate_random_delay(min_delay, max_delay) ==
    LET lo == IF min_delay = 0 THEN Config.MIN_INTERACTION_DELAY ELSE min_delay
        hi == IF max_delay = 0 THEN Config.MAX_INTERACTION_DELAY ELSE max_delay
    IN  uniform(lo, hi)

\* the gate with the comparison made inclusive
should_perform_action_inclusive(draw, probability) == draw <= probability

\* should_perform_action(probability) for a given random.random() draw
should_perform_action(draw, probability) == draw < probability

\* random.randint(a, b): the set of values it can return; empty when it
\* raises ValueError (a > b)
randint(a, b) == a .. b

\* `except Exception` catches every Exception subclass but not a
\* KeyboardInterrupt, which derives from BaseException
ExceptNothing(e) == FALSE

ExceptException(e) == e = "Exception"

(***************************************************************************)
(* Initial state: a constructed VideoWatcher (main.py 55-77) about to call *)
(* initialize_components.                                                  *)
(***************************************************************************)
\* the Config attributes read, config.py 13-21, 32-34, 64-67; delays in
\* tenths of a second (the defaults 1.5 and 5.0), probabilities in tenths
ConfigOf(watch_range, probabilities, socionator_enabled) ==
    [ MIN_WATCH_TIME |-> watch_range[1], MAX_WATCH_TIME |-> watch_range[2],
      MIN_INTERACTION_DELAY |-> 15, MAX_INTERACTION_DELAY |-> 50,
      SCROLL_PROBABILITY |-> probabilities[1], CLICK_PROBABILITY |-> probabilities[2],
      TARGET_VIDEO_URL |-> "",
      socionator_enabled |-> socionator_enabled ]

\* VideoWatcher.__init__, main.py 55-77, and the locals of the session
VideoWatcherInit ==
    /\ pc = "initialize_components"
    /\ tor_manager = "None"
    /\ browser = "None"
    /\ socionator = "None"
    /\ session_data = [ start_time |-> None,
                        interactions |-> [ clicks |-> 0, scrolls |-> 0, pauses |-> 0 ] ]
    /\ calls = << >>
    /\ events = << >>
    /\ now \in StartTimes
    /\ selector = 1
    /\ video_element = 0
    /\ watch_time = None
    /\ start_time = 0
    /\ success = "unset"
    /\ returned = "unset"
    /\ raised = "none"
    /\ status = "running"
    /\ hist = [ interrupted_at |-> "none",     \* pc at which KeyboardInterrupt arrived
                navigated |-> FALSE,           \* driver.get returned
                navigation_failed |-> FALSE,   \* driver.get raised
                tried |-> << >>,               \* the selectors waited for, in order, each
                                               \* with how the wait ended
                lookup |-> "none",             \* how _find_video_element ended: "found",
                                               \* "timed_out" (every selector), "raised"
                playback_raised |-> FALSE,     \* the focus click or the keystroke raised
                interaction_raised |-> FALSE,  \* a scroll or click primitive raised in the loop
                tick_raised |-> FALSE,         \* ... in the tick that is running
                loop_entered |-> FALSE,        \* the while loop was reached
                scroll_gates |-> 0,            \* evaluations of the scroll gate
                click_gates |-> 0,             \* evaluations of the click gate
                ticks |-> 0,                   \* loop iterations completed
                scrolls |-> 0,                 \* window.scrollBy calls that returned
                fixed_interval |-> 0,          \* the randint(5, 15) result if every tick drew
                                               \* the same one, 0 before the first, -1 if not
                responses |-> << >>,           \* what the endpoint did with each of events
                cleaned |-> FALSE,             \* cleanup has run
                release_raised |-> { } ]       \* the releases of cleanup that raised

\* the POST /api/start requests the web server is sent
Requests == { 1, 2 }

\* a request that has not arrived yet
Waiting ==
    [ pc |-> "waiting", watch_time |-> None, start_time |-> 0,
      session_data |-> [ start_time |-> None,
                         interactions |-> [ clicks |-> 0, scrolls |-> 0, pauses |-> 0 ] ],
      status |-> "none" ]

\* the web server is sent no request
NoRequest ==
    /\ threaded = FALSE
    /\ handlers = [ r \in Requests |-> Waiting ]

\* no utils.py function is called on its own
NoCall ==
    /\ call = [ fn |-> "none" ]
    /\ delay = None
    /\ fired = None
    /\ points = None
    /\ actions = << >>
    /\ pointer = None

Init ==
    /\ entry \in { "cli", "server" }
    /\ \E url \in VideoUrls, wt \in { None } \cup { Some(w) : w \in ExplicitWatchTimes },
          cp \in BOOLEAN, wr \in WatchRanges, pr \in Probabilities, soc \in BOOLEAN :
          /\ args = [ url |-> url, watch_time |-> wt, custom_proxy |-> cp ]
          /\ Config = ConfigOf(wr, pr, soc)
          \* server.py 32: watch_time is always int(...) there
          /\ entry = "server" => wt # None
          \* the several-tick session is tried from the command line over Tor
          /\ wt = Some(MaxExplicitWatch) => entry = "cli" /\ ~cp
          \* probabilities outside [0, 1] are tried in a short command-line
          \* session over a custom proxy, without telemetry
          /\ pr \notin ValidProbabilities =>
                /\ entry = "cli" /\ url # "" /\ wt = Some(MaxSampledWatch) /\ cp /\ ~soc
                /\ wr[1] <= wr[2]
    /\ pace \in { "shortest", "longest" }
    /\ VideoWatcherInit
    /\ NoCall
    /\ NoRequest

(***************************************************************************)
(* Exceptions.  A raise unwinds through the enclosing try statements; the  *)
(* operators below give where control lands and what the handlers on the   *)
(* way do.  `site` is the innermost function with a try around the raise.  *)
(***************************************************************************)
video_url == IF args.url # "" THEN args.url ELSE Config.TARGET_VIDEO_URL

\* SocionatorAPI.send_engagement_event: the payload posted to /events
EngagementEvent(event_type, metadata) ==
    [ event_type |-> event_type, video_url |-> video_url, metadata |-> metadata ]

\* SocionatorAPI.send_watch_session: the payload posted to /sessions
WatchSession(time_watched, interactions) ==
    [ event_type |-> "watch_session", video_url |-> video_url,
      metadata |-> [ watch_time |-> time_watched, interactions |-> interactions ] ]

\* what the telemetry endpoint does with a POST: answers 201, answers
\* another status, or the request raises; a failing endpoint is tried in the
\* web server's sessions with the explicit watch time MaxSampledWatch
TelemetryResponses ==
    IF entry = "server" /\ args.watch_time = Some(MaxSampledWatch)
    THEN { "ok", "bad_status", "raises" } ELSE { "ok" }

\* send_engagement_event without its try statement: what the request raises
\* reaches the caller
send_engagement_event_uncaught(response) ==
    CASE response = "ok" -> "True"
      [] response = "bad_status" -> "False"
      [] response = "raises" -> "raises"

\* SocionatorAPI.send_engagement_event, socionator_integration.py 52-98:
\* True for a 201, False for another status and for an Exception
send_engagement_event(response) ==
    IF response = "ok" THEN "True" ELSE "False"

\* SocionatorAPI.send_watch_session, socionator_integration.py 100-145
send_watch_session(response) ==
    IF response = "ok" THEN "True" ELSE "False"

_report_session_error_dropped(error_message) == events

\* VideoWatcher._report_session_error
_report_session_error(error_message) ==
    IF socionator # "None"
    THEN Append(events, EngagementEvent("session_error", [ error |-> error_message ]))
    ELSE events

_report_session_completion_dropped == events

\* VideoWatcher._report_session_completion
_report_session_completion ==
    IF socionator # "None"
    THEN Append(events, WatchSession(IntTime(now) - session_data.start_time[1],
                                     session_data.interactions))
    ELSE events

\* what main() / start_session() do with an exception that reaches them
EntryExcept(e) ==
    IF entry = "cli"
    THEN \* main.py 221-230: both handlers call sys.exit, then finally runs cleanup
         [ pc |-> "cleanup", status |-> IF e = "KeyboardInterrupt" THEN "exit0" ELSE "exit1",
           raised |-> "none", success |-> success, returned |-> returned, events |-> events ]
    ELSE IF ExceptException(e)
    THEN \* server.py 53-58
         [ pc |-> "done", status |-> "http500",
           raised |-> "none", success |-> success, returned |-> returned, events |-> events ]
    ELSE \* nothing in start_session catches it
         [ pc |-> "done", status |-> "raised",
           raised |-> e, success |-> success, returned |-> returned, events |-> events ]

\* the except clause of run_session, main.py 163-167
RunSessionExcept(e) ==
    IF ExceptException(e)
    THEN [ pc |-> "run_session_returned", status |-> status, raised |-> "none",
           success |-> success, returned |-> "False",
           events |-> IF video_url # "" /\ socionator # "None"
                      THEN _report_session_error("str(e)") ELSE events ]
    ELSE EntryExcept(e)

\* the except clause of simulate_video_watching, automation.py 155-158
SimulateExcept(e) ==
    IF ExceptException(e)
    THEN [ pc |-> "simulate_returned", status |-> status, raised |-> "none",
           success |-> "False", returned |-> returned, events |-> events ]
    ELSE RunSessionExcept(e)

\* the except clause of initialize_components, main.py 117-119, and the
\* branches of main() / start_session() for its False result
InitializeFailed ==
    IF entry = "cli"
    THEN [ pc |-> "cleanup", status |-> "exit1" ]     \* main.py 218-219, 229-230
    ELSE [ pc |-> "done", status |-> "http500" ]      \* server.py 47-51

InitializeExcept(e) ==
    IF ExceptException(e)
    THEN [ pc |-> InitializeFailed.pc, status |-> InitializeFailed.status, raised |-> "none",
           success |-> success, returned |-> returned, events |-> events ]
    ELSE EntryExcept(e)

Unwind(e, site) ==
    CASE site = "simulate_video_watching" -> SimulateExcept(e)
      [] site = "run_session" -> RunSessionExcept(e)
      [] site = "initialize_components" -> InitializeExcept(e)
      [] OTHER -> EntryExcept(e)

Land(l) ==
    /\ pc' = l.pc
    /\ status' = l.status
    /\ raised' = l.raised
    /\ success' = l.success
    /\ returned' = l.returned
    /\ events' = l.events

\* the function whose try statement encloses each position
Site(p) ==
    CASE p \in { "initialize_components", "tor_start", "launch_browser",
                 "socionator_initialize" } -> "initialize_components"
      [] p \in { "run_session", "simulate_returned" } -> "run_session"
      [] p \in { "navigate_to_url", "find_video_element", "resolve_watch_time",
                 "ensure_video_playing", "loop", "scroll_gate", "perform_random_scroll",
                 "click_gate", "perform_random_click", "wait_interval" }
            -> "simulate_video_watching"
      [] OTHER -> "entry"

(***************************************************************************)
(* VideoWatcher.initialize_components, main.py 79-119                      *)
(***************************************************************************)
InitReturnsFalse ==
    /\ pc' = InitializeFailed.pc
    /\ status' = InitializeFailed.status

\* main.py 88-103: choose the proxy and construct the first component
InitializeComponents ==
    /\ pc = "initialize_components"
    /\ IF ~args.custom_proxy
       THEN /\ tor_manager' = "created"      \* TorManager(): controller is None
            /\ pc' = "tor_start"
            /\ UNCHANGED browser
       ELSE /\ browser' = "created"          \* BrowserAutomation(): driver is None
            /\ pc' = "launch_browser"
            /\ UNCHANGED tor_manager
    /\ UNCHANGED << inputs, utils, server, socionator, session_data, calls, events, now, selector,
                    video_element, watch_time, start_time, success, returned, raised,
                    status, hist >>

\* TorManager.start, tor_manager.py 31-57, and main.py 90-93, 103
TorStart ==
    /\ pc = "tor_start"
    /\ \E outcome \in { "connect_raises", "authenticate_raises", "not_tor", "ok" } :
          /\ tor_manager' = IF outcome = "connect_raises" THEN "created" ELSE "open"
          /\ IF outcome = "ok"
             THEN /\ browser' = "created"
                  /\ pc' = "launch_browser"
                  /\ UNCHANGED status
             ELSE /\ InitReturnsFalse
                  /\ UNCHANGED browser
    /\ UNCHANGED << inputs, utils, server, socionator, session_data, calls, events, now, selector,
                    video_element, watch_time, start_time, success, returned, raised,
                    hist >>

\* BrowserAutomation.launch_browser, automation.py 39-79, and main.py 104-110
LaunchBrowser ==
    /\ pc = "launch_browser"
    /\ \E outcome \in { "ok", "raises" } :
          IF outcome = "ok"
          THEN /\ browser' = "live"
               /\ IF Config.socionator_enabled
                  THEN socionator' = "open" /\ pc' = "socionator_initialize"
                  ELSE pc' = "run_session" /\ UNCHANGED socionator
               /\ UNCHANGED status
          ELSE /\ InitReturnsFalse
               /\ UNCHANGED << browser, socionator >>
    /\ UNCHANGED << inputs, utils, server, tor_manager, session_data, calls, events, now, selector,
                    video_element, watch_time, start_time, success, returned, raised,
                    hist >>

\* SocionatorAPI.initialize, socionator_integration.py 28-50, and main.py
\* 111-115: a failed initialize is only logged
SocionatorInitialize ==
    /\ pc = "socionator_initialize"
    /\ \E outcome \in { "ok", "bad_status", "raises" } : pc' = "run_session"
    /\ UNCHANGED << inputs, utils, server, tor_manager, browser, socionator, session_data, calls,
                    events, now, selector, video_element, watch_time, start_time,
                    success, returned, raised, status, hist >>

(***************************************************************************)
(* VideoWatcher.run_session, main.py 121-167                               *)
(***************************************************************************)
\* run_session reporting a missing URL as a session error before returning
RunSession_reports_missing_url ==
    /\ pc = "run_session"
    /\ session_data' = [ session_data EXCEPT !.start_time = Some(IntTime(now)) ]
    /\ IF video_url = ""
       THEN /\ returned' = "False"
            /\ pc' = "run_session_returned"
            /\ events' = _report_session_error("No video URL provided")
            /\ hist' = [ hist EXCEPT !.responses = IF socionator # "None"
                                                   THEN Append(@, "ok") ELSE @ ]
            /\ UNCHANGED << watch_time, success, raised, status >>
       ELSE \E response \in TelemetryResponses :
              /\ events' = IF socionator # "None"
                           THEN Append(events, EngagementEvent("session_start",
                                    [ proxy_type |-> IF tor_manager # "None"
                                                     THEN "tor" ELSE "custom" ]))
                           ELSE events
              /\ hist' = [ hist EXCEPT !.responses = IF socionator # "None"
                                                     THEN Append(@, response) ELSE @ ]
              /\ watch_time' = args.watch_time
              /\ pc' = "navigate_to_url"
              /\ UNCHANGED << returned, success, raised, status >>
    /\ UNCHANGED << inputs, utils, server, tor_manager, browser, socionator, calls, now, selector,
                    video_element, start_time >>

\* main.py 129-152: record the start time, resolve the URL, send
\* session_start and call simulate_video_watching(video_url, args.watch_time)
RunSession ==
    /\ pc = "run_session"
    /\ session_data' = [ session_data EXCEPT !.start_time = Some(IntTime(now)) ]
    /\ IF video_url = ""
       THEN /\ returned' = "False"
            /\ pc' = "run_session_returned"
            /\ UNCHANGED << events, watch_time, success, raised, status, hist >>
       ELSE \E response \in TelemetryResponses :
              IF socionator # "None" /\ send_engagement_event(response) = "raises"
              THEN /\ Land(Unwind("Exception", "run_session"))
                   /\ UNCHANGED << watch_time, hist >>
              ELSE /\ events' = IF socionator # "None"
                                THEN Append(events, EngagementEvent("session_start",
                                         [ proxy_type |-> IF tor_manager # "None"
                                                          THEN "tor" ELSE "custom" ]))
                                ELSE events
                   /\ hist' = [ hist EXCEPT !.responses = IF socionator # "None"
                                                          THEN Append(@, response) ELSE @ ]
                   /\ watch_time' = args.watch_time
                   /\ pc' = "navigate_to_url"
                   /\ UNCHANGED << returned, success, raised, status >>
    /\ UNCHANGED << inputs, utils, server, tor_manager, browser, socionator, calls, now, selector,
                    video_element, start_time >>

\* main.py 154-161: report the outcome of the simulation and return it
SimulateReturned ==
    /\ pc = "simulate_returned"
    /\ \E response \in TelemetryResponses :
          IF /\ socionator # "None"
             /\ "raises" = IF success = "True" THEN send_watch_session(response)
                           ELSE send_engagement_event(response)
          THEN /\ Land(Unwind("Exception", "run_session"))
               /\ UNCHANGED hist
          ELSE /\ IF success = "True"
                  THEN events' = _report_session_completion /\ returned' = "True"
                  ELSE events' = _report_session_error("Simulation failed")
                       /\ returned' = "False"
               /\ hist' = [ hist EXCEPT !.responses = IF socionator # "None"
                                                      THEN Append(@, response) ELSE @ ]
               /\ pc' = "run_session_returned"
               /\ UNCHANGED << success, raised, status >>
    /\ UNCHANGED << inputs, utils, server, tor_manager, browser, socionator, session_data, calls, now,
                    selector, video_element, watch_time, start_time >>

(***************************************************************************)
(* BrowserAutomation.simulate_video_watching, automation.py 110-158        *)
(***************************************************************************)
SimulateReturns(value) ==
    /\ success' = value
    /\ pc' = "simulate_returned"

\* navigate_to_url with its result ignored by the caller
NavigateToUrl_result_ignored ==
    /\ pc = "navigate_to_url"
    /\ \E outcome \in { "ok", "raises" } :
          IF outcome = "ok"
          THEN /\ now' = now + generate_random_delay(20, 40)
               /\ hist' = [ hist EXCEPT !.navigated = TRUE ]
          ELSE /\ hist' = [ hist EXCEPT !.navigation_failed = TRUE ]
               /\ UNCHANGED now
    /\ pc' = "find_video_element"
    /\ UNCHANGED << inputs, utils, server, tor_manager, browser, socionator, session_data, calls,
                    events, selector, video_element, watch_time, start_time, success,
                    returned, raised, status >>

\* navigate_to_url, automation.py 91-108, and automation.py 122-123
NavigateToUrl ==
    /\ pc = "navigate_to_url"
    /\ \E outcome \in { "ok", "raises" } :
          IF outcome = "ok"
          THEN /\ now' = now + generate_random_delay(20, 40)
               /\ pc' = "find_video_element"
               /\ hist' = [ hist EXCEPT !.navigated = TRUE ]
               /\ UNCHANGED success
          ELSE /\ SimulateReturns("False")
               /\ hist' = [ hist EXCEPT !.navigation_failed = TRUE ]
               /\ UNCHANGED now
    /\ UNCHANGED << inputs, utils, server, tor_manager, browser, socionator, session_data, calls,
                    events, selector, video_element, watch_time, start_time, returned,
                    raised, status >>

\* _find_video_element with its result ignored by the caller: the session
\* goes on after the last selector timed out
FindVideoElement_result_ignored ==
    /\ pc = "find_video_element"
    /\ \E outcome \in { "found", "TimeoutException", "raises" } :
          CASE outcome = "found" ->
                 /\ video_element' = selector
                 /\ pc' = "resolve_watch_time"
                 /\ hist' = [ hist EXCEPT !.lookup = "found",
                                          !.tried = Append(@, << selectors[selector], outcome >>) ]
                 /\ UNCHANGED << selector, now, success >>
            [] outcome = "TimeoutException" ->
                 /\ now' = now + 100
                 /\ IF selector < Len(selectors)
                    THEN /\ selector' = selector + 1
                         /\ hist' = [ hist EXCEPT !.tried = Append(@, << selectors[selector], outcome >>) ]
                         /\ UNCHANGED << pc, success >>
                    ELSE /\ pc' = "resolve_watch_time"
                         /\ hist' = [ hist EXCEPT !.lookup = "timed_out",
                                                  !.tried = Append(@, << selectors[selector], outcome >>) ]
                         /\ UNCHANGED << selector, success >>
                 /\ UNCHANGED video_element
            [] outcome = "raises" ->
                 /\ SimulateReturns("False")
                 /\ hist' = [ hist EXCEPT !.lookup = "raised",
                                          !.tried = Append(@, << selectors[selector], outcome >>) ]
                 /\ UNCHANGED << selector, video_element, now >>
    /\ UNCHANGED << inputs, utils, server, tor_manager, browser, socionator, session_data, calls,
                    events, watch_time, start_time, returned, raised, status >>

\* one iteration of the selector loop of _find_video_element, automation.py
\* 160-187, and automation.py 126-128; WebDriverWait(driver, 10) times out
\* after 10 seconds
FindVideoElement ==
    /\ pc = "find_video_element"
    /\ \E outcome \in { "found", "TimeoutException", "raises" } :
          CASE outcome = "found" ->
                 /\ video_element' = selector
                 /\ pc' = "resolve_watch_time"
                 /\ hist' = [ hist EXCEPT !.lookup = "found",
                                          !.tried = Append(@, << selectors[selector], outcome >>) ]
                 /\ UNCHANGED << selector, now, success >>
            [] outcome = "TimeoutException" ->
                 /\ now' = now + 100
                 /\ IF selector < Len(selectors)
                    THEN /\ selector' = selector + 1
                         /\ hist' = [ hist EXCEPT !.tried = Append(@, << selectors[selector], outcome >>) ]
                         /\ UNCHANGED << pc, success >>
                    ELSE /\ SimulateReturns("False")
                         /\ hist' = [ hist EXCEPT !.lookup = "timed_out",
                                                  !.tried = Append(@, << selectors[selector], outcome >>) ]
                         /\ UNCHANGED selector
                 /\ UNCHANGED video_element
            [] outcome = "raises" ->
                 /\ SimulateReturns("False")
                 /\ hist' = [ hist EXCEPT !.lookup = "raised",
                                          !.tried = Append(@, << selectors[selector], outcome >>) ]
                 /\ UNCHANGED << selector, video_element, now >>
    /\ UNCHANGED << inputs, utils, server, tor_manager, browser, socionator, session_data, calls,
                    events, watch_time, start_time, returned, raised, status >>

\* the resolution written `if not watch_time`, which takes an explicit 0
\* for an absent watch time
ResolveWatchTime_falsy ==
    /\ pc = "resolve_watch_time"
    /\ IF watch_time = None \/ watch_time = Some(0)
       THEN IF randint(Config.MIN_WATCH_TIME, Config.MAX_WATCH_TIME) = {}
            THEN Land(Unwind("Exception", "simulate_video_watching")) /\ UNCHANGED watch_time
            ELSE /\ \E w \in randint(Config.MIN_WATCH_TIME, Config.MAX_WATCH_TIME) :
                       watch_time' = Some(w)
                 /\ pc' = "ensure_video_playing"
                 /\ UNCHANGED << status, raised, success, returned, events >>
       ELSE /\ pc' = "ensure_video_playing"
            /\ UNCHANGED << watch_time, status, raised, success, returned, events >>
    /\ UNCHANGED << inputs, utils, server, tor_manager, browser, socionator, session_data, calls, now,
                    selector, video_element, start_time, hist >>

\* automation.py 130-132: an absent watch time is drawn from the configured
\* range; random.randint raises ValueError on an empty range
ResolveWatchTime ==
    /\ pc = "resolve_watch_time"
    /\ IF watch_time = None
       THEN IF randint(Config.MIN_WATCH_TIME, Config.MAX_WATCH_TIME) = {}
            THEN Land(Unwind("Exception", "simulate_video_watching")) /\ UNCHANGED watch_time
            ELSE /\ \E w \in randint(Config.MIN_WATCH_TIME, Config.MAX_WATCH_TIME) :
                       watch_time' = Some(w)
                 /\ pc' = "ensure_video_playing"
                 /\ UNCHANGED << status, raised, success, returned, events >>
       ELSE /\ pc' = "ensure_video_playing"
            /\ UNCHANGED << watch_time, status, raised, success, returned, events >>
    /\ UNCHANGED << inputs, utils, server, tor_manager, browser, socionator, session_data, calls, now,
                    selector, video_element, start_time, hist >>

\* _simulate_click, automation.py 245-281: the sleep it adds when the click
\* went through (wait_random_delay(0.1, 0.3)), none when it raised
_simulate_click(outcome) ==
    IF outcome = "ok" THEN generate_random_delay(1, 3) ELSE 0

\* _ensure_video_playing, automation.py 189-214, called at automation.py 135
\* with its result dropped, then the loop starts at start_time = 0
EnsureVideoPlaying ==
    /\ pc = "ensure_video_playing"
    /\ \E click \in { "ok", "raises" }, keys \in { "ok", "raises" } :
          /\ now' = now + _simulate_click(click) + generate_random_delay(0, 0)
                        + (IF keys = "ok" THEN generate_random_delay(0, 0) ELSE 0)
          /\ hist' = [ hist EXCEPT !.playback_raised = (click = "raises" \/ keys = "raises"),
                                   !.loop_entered = TRUE ]
    /\ start_time' = 0
    /\ pc' = "loop"
    /\ UNCHANGED << inputs, utils, server, tor_manager, browser, socionator, session_data, calls,
                    events, selector, video_element, watch_time, success, returned,
                    raised, status >>

\* the while test without the return that follows the loop
Loop_without_return ==
    /\ pc = "loop"
    /\ start_time < watch_time[1]
    /\ pc' = "scroll_gate"
    /\ UNCHANGED << inputs, utils, server, tor_manager, browser, socionator, session_data, calls,
                    events, now, selector, video_element, watch_time, start_time,
                    success, returned, raised, status, hist >>

\* the loop written with its test after the body: the first tick runs
\* whatever the target
Loop_do_while ==
    /\ pc = "loop"
    /\ IF start_time < watch_time[1] \/ hist.scroll_gates = 0
       THEN pc' = "scroll_gate" /\ UNCHANGED success
       ELSE SimulateReturns("True")
    /\ UNCHANGED << inputs, utils, server, tor_manager, browser, socionator, session_data, calls,
                    events, now, selector, video_element, watch_time, start_time,
                    returned, raised, status, hist >>

\* the while test, automation.py 139, and the return after it, 152-153
Loop ==
    /\ pc = "loop"
    /\ IF start_time < watch_time[1]
       THEN pc' = "scroll_gate" /\ UNCHANGED success
       ELSE SimulateReturns("True")
    /\ UNCHANGED << inputs, utils, server, tor_manager, browser, socionator, session_data, calls,
                    events, now, selector, video_element, watch_time, start_time,
                    returned, raised, status, hist >>

\* automation.py 141
ScrollGate ==
    /\ pc = "scroll_gate"
    /\ \E draw \in Draws :
          pc' = IF should_perform_action(draw, Config.SCROLL_PROBABILITY)
                THEN "perform_random_scroll" ELSE "click_gate"
    /\ hist' = [ hist EXCEPT !.scroll_gates = @ + 1 ]
    /\ UNCHANGED << inputs, utils, server, tor_manager, browser, socionator, session_data, calls,
                    events, now, selector, video_element, watch_time, start_time,
                    success, returned, raised, status >>

\* _perform_random_scroll without its try statement
PerformRandomScroll_unguarded ==
    /\ pc = "perform_random_scroll"
    /\ \E outcome \in { "ok", "raises" } :
          IF outcome = "ok"
          THEN /\ now' = now + generate_random_delay(0, 0)
               /\ hist' = [ hist EXCEPT !.scrolls = @ + 1 ]
               /\ pc' = "click_gate"
               /\ UNCHANGED << status, raised, success, returned, events >>
          ELSE /\ hist' = [ hist EXCEPT !.interaction_raised = TRUE, !.tick_raised = TRUE ]
               /\ Land(Unwind("Exception", "simulate_video_watching"))
               /\ UNCHANGED now
    /\ UNCHANGED << inputs, utils, server, tor_manager, browser, socionator, session_data, calls,
                    selector, video_element, watch_time, start_time >>

\* _perform_random_scroll with the click gate made the alternative of the
\* scroll (an elif): after a scroll attempt the tick goes to its wait
PerformRandomScroll_skips_click ==
    /\ pc = "perform_random_scroll"
    /\ \E outcome \in { "ok", "raises" } :
          IF outcome = "ok"
          THEN /\ now' = now + generate_random_delay(0, 0)
               /\ hist' = [ hist EXCEPT !.scrolls = @ + 1 ]
          ELSE /\ hist' = [ hist EXCEPT !.interaction_raised = TRUE, !.tick_raised = TRUE ]
               /\ UNCHANGED now
    /\ pc' = "wait_interval"
    /\ UNCHANGED << inputs, utils, server, tor_manager, browser, socionator, session_data, calls,
                    events, selector, video_element, watch_time, start_time, success,
                    returned, raised, status >>

\* _perform_random_scroll, automation.py 216-226
PerformRandomScroll ==
    /\ pc = "perform_random_scroll"
    /\ \E outcome \in { "ok", "raises" } :
          IF outcome = "ok"
          THEN /\ now' = now + generate_random_delay(0, 0)
               /\ hist' = [ hist EXCEPT !.scrolls = @ + 1 ]
          ELSE /\ hist' = [ hist EXCEPT !.interaction_raised = TRUE, !.tick_raised = TRUE ]
               /\ UNCHANGED now
    /\ pc' = "click_gate"
    /\ UNCHANGED << inputs, utils, server, tor_manager, browser, socionator, session_data, calls,
                    events, selector, video_element, watch_time, start_time, success,
                    returned, raised, status >>

\* automation.py 144
ClickGate ==
    /\ pc = "click_gate"
    /\ \E draw \in Draws :
          pc' = IF should_perform_action(draw, Config.CLICK_PROBABILITY)
                THEN "perform_random_click" ELSE "wait_interval"
    /\ hist' = [ hist EXCEPT !.click_gates = @ + 1 ]
    /\ UNCHANGED << inputs, utils, server, tor_manager, browser, socionator, session_data, calls,
                    events, now, selector, video_element, watch_time, start_time,
                    success, returned, raised, status >>

\* _perform_random_click, automation.py 228-243
PerformRandomClick ==
    /\ pc = "perform_random_click"
    /\ \E outcome \in { "no_elements", "ok", "find_raises", "click_raises" } :
          /\ now' = now + (IF outcome \in { "ok", "click_raises" }
                            THEN _simulate_click(IF outcome = "ok" THEN "ok" ELSE "raises")
                            ELSE 0)
          /\ hist' = [ hist EXCEPT !.interaction_raised =
                                      @ \/ outcome \in { "find_raises", "click_raises" },
                                   !.tick_raised =
                                      @ \/ outcome \in { "find_raises", "click_raises" } ]
    /\ pc' = "wait_interval"
    /\ UNCHANGED << inputs, utils, server, tor_manager, browser, socionator, session_data, calls,
                    events, selector, video_element, watch_time, start_time, success,
                    returned, raised, status >>

\* automation.py 148: the tick interval is the draw, clipped to what remains
tick_interval_unclipped(r, remaining) == r

\* the tick interval taken to be all that remains, whatever the draw
tick_interval_remaining(r, remaining) == remaining

tick_interval(r, remaining) == Min(r, remaining)

\* automation.py 148-150: the tick interval, the sleep and the advance
WaitInterval ==
    /\ pc = "wait_interval"
    /\ \E r \in randint(5, 15) \cap TickDraws :
          LET interval == tick_interval(r, watch_time[1] - start_time) IN
          /\ now' = now + generate_random_delay(10 * interval, 10 * (interval + 2))
          /\ start_time' = start_time + interval
          /\ hist' = [ hist EXCEPT !.ticks = @ + 1, !.tick_raised = FALSE,
                                   !.fixed_interval = IF @ \in { 0, r } THEN r ELSE -1 ]
    /\ pc' = "loop"
    /\ UNCHANGED << inputs, utils, server, tor_manager, browser, socionator, session_data, calls,
                    events, selector, video_element, watch_time, success, returned,
                    raised, status >>

(***************************************************************************)
(* The entry points after run_session, and VideoWatcher.cleanup            *)
(***************************************************************************)
\* main.py 213-217 (sys.exit, then the finally clause) and server.py 40-41
RunSessionReturned ==
    /\ pc = "run_session_returned"
    /\ status' = IF entry = "cli"
                 THEN IF returned = "True" THEN "exit0" ELSE "exit1"
                 ELSE status
    /\ pc' = "cleanup"
    /\ UNCHANGED << inputs, utils, server, tor_manager, browser, socionator, session_data, calls,
                    events, now, selector, video_element, watch_time, start_time,
                    success, returned, raised, hist >>

\* outcomes of driver.quit(), controller.close() and session.close() tried:
\* a failing release is tried in the sessions that ended before their first
\* tick
ReleaseOutcomes == IF hist.ticks = 0 THEN { "ok", "raises" } ELSE { "ok" }

\* cleanup with releases that do not catch what they raise: the except
\* clause of cleanup itself, main.py 202-204, then skips the later releases
Cleanup_unguarded ==
    /\ pc = "cleanup"
    /\ \E quit \in ReleaseOutcomes, close \in ReleaseOutcomes,
          session_close \in ReleaseOutcomes :
          /\ browser' = IF browser = "live" THEN "closed" ELSE browser
          /\ tor_manager' = IF tor_manager = "open" THEN "closed" ELSE tor_manager
          /\ socionator' = IF socionator # "None" THEN "closed" ELSE socionator
          /\ calls' = calls \o (IF browser # "None" THEN << "close_browser" >> ELSE << >>)
                            \o (IF tor_manager # "None" /\ ~(browser = "live" /\ quit = "raises")
                                THEN << "stop" >> ELSE << >>)
                            \o (IF /\ socionator # "None"
                                   /\ ~(browser = "live" /\ quit = "raises")
                                   /\ ~(tor_manager = "open" /\ close = "raises")
                                THEN << "close" >> ELSE << >>)
          /\ hist' = [ hist EXCEPT
                         !.cleaned = TRUE,
                         !.release_raised =
                             (IF browser = "live" /\ quit = "raises"
                              THEN { "close_browser" } ELSE { })
                             \cup (IF tor_manager = "open" /\ close = "raises"
                                   THEN { "stop" } ELSE { })
                             \cup (IF socionator # "None" /\ session_close = "raises"
                                   THEN { "close" } ELSE { }) ]
    /\ status' = IF entry = "server"
                 THEN IF returned = "True" THEN "http200_success" ELSE "http200_failed"
                 ELSE status
    /\ pc' = "done"
    /\ UNCHANGED << inputs, utils, server, session_data, events, now, selector, video_element, watch_time,
                    start_time, success, returned, raised >>

\* VideoWatcher.cleanup, main.py 189-204, with BrowserAutomation.close_browser
\* (automation.py 81-89), TorManager.stop (tor_manager.py 59-67) and
\* SocionatorAPI.close (socionator_integration.py 220-227): each of the three
\* catches what its own release raises.  Then server.py 43-46 builds the
\* response; in main() the pending sys.exit ends the process.
Cleanup ==
    /\ pc = "cleanup"
    /\ \E quit \in ReleaseOutcomes, close \in ReleaseOutcomes,
          session_close \in ReleaseOutcomes :
          /\ browser' = IF browser = "live" THEN "closed" ELSE browser
          /\ tor_manager' = IF tor_manager = "open" THEN "closed" ELSE tor_manager
          /\ socionator' = IF socionator # "None" THEN "closed" ELSE socionator
          /\ calls' = calls \o (IF browser # "None" THEN << "close_browser" >> ELSE << >>)
                            \o (IF tor_manager # "None" THEN << "stop" >> ELSE << >>)
                            \o (IF socionator # "None" THEN << "close" >> ELSE << >>)
          /\ hist' = [ hist EXCEPT
                         !.cleaned = TRUE,
                         !.release_raised =
                             (IF browser = "live" /\ quit = "raises"
                              THEN { "close_browser" } ELSE { })
                             \cup (IF tor_manager = "open" /\ close = "raises"
                                   THEN { "stop" } ELSE { })
                             \cup (IF socionator # "None" /\ session_close = "raises"
                                   THEN { "close" } ELSE { }) ]
    /\ status' = IF entry = "server"
                 THEN IF returned = "True" THEN "http200_success" ELSE "http200_failed"
                 ELSE status
    /\ pc' = "done"
    /\ UNCHANGED << inputs, utils, server, session_data, events, now, selector, video_element, watch_time,
                    start_time, success, returned, raised >>

(***************************************************************************)
(* An external interrupt: Python raises KeyboardInterrupt in the main      *)
(* thread at whatever statement is executing.                              *)
(***************************************************************************)
Interruptible ==
    { "initialize_components", "tor_start", "launch_browser", "socionator_initialize",
      "run_session", "navigate_to_url", "find_video_element", "resolve_watch_time",
      "ensure_video_playing", "loop", "scroll_gate", "perform_random_scroll",
      "click_gate", "perform_random_click", "wait_interval", "simulate_returned",
      "run_session_returned" }

KeyboardInterrupt ==
    /\ pc \in Interruptible
    /\ hist.interrupted_at = "none"
    /\ Land(Unwind("KeyboardInterrupt", Site(pc)))
    /\ hist' = [ hist EXCEPT !.interrupted_at = pc ]
    /\ UNCHANGED << inputs, utils, server, tor_manager, browser, socionator, session_data, calls, now,
                    selector, video_element, watch_time, start_time >>

Next ==
    \/ InitializeComponents
    \/ TorStart
    \/ LaunchBrowser
    \/ SocionatorInitialize
    \/ RunSession
    \/ NavigateToUrl
    \/ FindVideoElement
    \/ ResolveWatchTime
    \/ EnsureVideoPlaying
    \/ Loop
    \/ ScrollGate
    \/ PerformRandomScroll
    \/ ClickGate
    \/ PerformRandomClick
    \/ WaitInterval
    \/ SimulateReturned
    \/ RunSessionReturned
    \/ Cleanup
    \/ KeyboardInterrupt

Spec == Init /\ [][Next]_vars

\* The thread that runs the session does not stop inside the interaction
\* loop: the while test, the two gates, the two interactions and the tick
\* wait (a finite time.sleep) each complete once begun.
\* Which entry point runs and which proxy is used change nothing inside
\* the loop: termination is checked for command-line sessions over Tor.
LiveInit == Init /\ entry = "cli" /\ ~args.custom_proxy /\ args.url # ""

LiveSpec ==
    /\ LiveInit /\ [][Next]_vars
    /\ WF_vars(Loop)
    /\ WF_vars(ScrollGate)
    /\ WF_vars(PerformRandomScroll)
    /\ WF_vars(ClickGate)
    /\ WF_vars(PerformRandomClick)
    /\ WF_vars(WaitInterval)

(***************************************************************************)
(* utils.py called directly: generate_random_delay, should_perform_action  *)
(* and generate_human_like_mouse_movement, each on arguments and random    *)
(* draws taken from bounded sets.                                          *)
(***************************************************************************)
\* the step counts tried are 0 and the powers of two up to 2^MaxStepsExponent:
\* for these i / steps and every product and sum of the Bezier formula are
\* exact in binary floating point, so the integer arithmetic below is the
\* arithmetic of the code
MaxStepsExponent == 2

StepCounts == { 0 } \cup { 2^k : k \in 0 .. MaxStepsExponent }

\* random.randint(-100, 100), utils.py 87-92: the largest offset of a
\* control point, and the offsets tried
Jitter == 100

Jitters == { -Jitter, 0, Jitter }

StartCoords == { << 0, 0 >>, << 30, -20 >> }

EndCoords == { << 0, 0 >>, << 40, 24 >>, << -16, 8 >> }

\* min_delay and max_delay arguments tried, in tenths of a second
DelayArgs == { 0, 1, 3, 20, 40 }

\* int(n / d) for d > 0: Python's int truncates toward zero
int_floor(n, d) == n \div d

int(n, d) == IF n >= 0 THEN n \div d ELSE -((-n) \div d)

\* range(steps), utils.py 121
range_from_one(steps) == 1 .. steps - 1

range(steps) == 0 .. steps - 1

\* one coordinate of the cubic Bezier formula at t = i / steps, utils.py
\* 122-128, times steps^3
bezier(i, steps, a0, a1, a2, a3) ==
    (steps - i)^3 * a0 + 3 * (steps - i)^2 * i * a1
        + 3 * (steps - i) * i^2 * a2 + i^3 * a3

\* the curve evaluated from t = 1 / steps on
_generate_bezier_curve_from_next(p0, p1, p2, p3, steps) ==
    [ k \in 1 .. Cardinality(range(steps)) |->
          << int(bezier(k, steps, p0[1], p1[1], p2[1], p3[1]), steps^3),
             int(bezier(k, steps, p0[2], p1[2], p2[2], p3[2]), steps^3) >> ]

\* _generate_bezier_curve, utils.py 110-132: the k-th point appended is the
\* one for the k-th value of range(steps), which is k - 1
_generate_bezier_curve(p0, p1, p2, p3, steps) ==
    [ k \in 1 .. Cardinality(range(steps)) |->
          << int(bezier(k - 1, steps, p0[1], p1[1], p2[1], p3[1]), steps^3),
             int(bezier(k - 1, steps, p0[2], p1[2], p2[2], p3[2]), steps^3) >> ]

\* utils.py 86-93: the two control points for the four random.randint draws
control_point1 == << call.start_coords[1] + call.randint[1],
                     call.start_coords[2] + call.randint[2] >>

control_point2 == << call.end_coords[1] + call.randint[3],
                     call.end_coords[2] + call.randint[4] >>

\* the sum of the offsets of a sequence of move_by_offset actions
RECURSIVE Displacement(_)
Displacement(offsets) ==
    IF offsets = << >> THEN << 0, 0 >>
    ELSE LET rest == Displacement(Tail(offsets))
         IN  << Head(offsets)[1] + rest[1], Head(offsets)[2] + rest[2] >>

UtilsInit ==
    /\ entry = "cli"
    /\ args = [ url |-> "", watch_time |-> None, custom_proxy |-> FALSE ]
    /\ Config = ConfigOf(<< MaxSampledWatch - 1, MaxSampledWatch >>, << 3, 2 >>, FALSE)
    /\ VideoWatcherInit
    /\ NoRequest
    /\ \/ \E min_delay \in DelayArgs, max_delay \in DelayArgs :
             /\ call = [ fn |-> "generate_random_delay",
                         min_delay |-> min_delay, max_delay |-> max_delay ]
             /\ pace \in { "shortest", "middle", "longest" }
       \/ \E probability \in 0 .. 10, random \in Draws :
             /\ call = [ fn |-> "should_perform_action",
                         probability |-> probability, random |-> random ]
             /\ pace = "shortest"
       \/ \E start_coords \in StartCoords, end_coords \in EndCoords,
             r \in Jitters \X Jitters \X Jitters \X Jitters, steps \in StepCounts :
             /\ call = [ fn |-> "generate_human_like_mouse_movement",
                         start_coords |-> start_coords, end_coords |-> end_coords,
                         randint |-> r, steps |-> steps ]
             /\ pace = "shortest"
    /\ delay = None
    /\ fired = None
    /\ points = None
    /\ actions = << >>
    /\ pointer = None

\* generate_random_delay, utils.py 52-60
GenerateRandomDelay ==
    /\ call.fn = "generate_random_delay"
    /\ delay = None
    /\ delay' = Some(generate_random_delay(call.min_delay, call.max_delay))
    /\ UNCHANGED << inputs, session, server, call, fired, points, actions, pointer >>

\* should_perform_action, utils.py 134-143
ShouldPerformAction ==
    /\ call.fn = "should_perform_action"
    /\ fired = None
    /\ fired' = Some(should_perform_action(call.random, call.probability))
    /\ UNCHANGED << inputs, session, server, call, delay, points, actions, pointer >>

\* generate_human_like_mouse_movement, utils.py 83-101: the control points
\* and the path
GenerateHumanLikeMouseMovement ==
    /\ call.fn = "generate_human_like_mouse_movement"
    /\ points = None
    /\ points' = Some(_generate_bezier_curve(call.start_coords, control_point1,
                                             control_point2, call.end_coords, call.steps))
    /\ UNCHANGED << inputs, session, server, call, delay, fired, actions, pointer >>

\* utils.py 104-106: one iteration of `for point in points`; the point
\* itself is the offset given to ActionChains.move_by_offset
MoveByOffset ==
    /\ points # None
    /\ pointer = None
    /\ Len(actions) < Len(points[1])
    /\ actions' = Append(actions, points[1][Len(actions) + 1])
    /\ UNCHANGED << inputs, session, server, call, delay, fired, points, pointer >>

\* utils.py 108: ActionChains.perform moves the pointer, which the caller
\* took to be at start_coords, by each offset in turn
Perform ==
    /\ points # None
    /\ pointer = None
    /\ Len(actions) = Len(points[1])
    /\ pointer' = Some(<< call.start_coords[1] + Displacement(actions)[1],
                          call.start_coords[2] + Displacement(actions)[2] >>)
    /\ UNCHANGED << inputs, session, server, call, delay, fired, points, actions >>

UtilsNext ==
    \/ GenerateRandomDelay
    \/ ShouldPerformAction
    \/ GenerateHumanLikeMouseMovement
    \/ MoveByOffset
    \/ Perform

UtilsSpec == UtilsInit /\ [][UtilsNext]_vars

(***************************************************************************)
(* The web server, ui/server.py: main() starts Flask's development server  *)
(* with app.run(host=host, port=port, debug=True), and start_session       *)
(* handles each POST /api/start.  app.run passes its options on to         *)
(* werkzeug's run_simple; the option `threaded` is not given, so whether   *)
(* each request is served in a thread of its own is the default of the     *)
(* Flask installed (True since Flask 1.0, False before): both are tried.   *)
(* Nothing in start_session or in VideoWatcher takes a lock.               *)
(***************************************************************************)
\* the 'watch-time' values of the requests tried
RequestWatchTimes == { 0, MaxSampledWatch, MaxExplicitWatch }

\* server.py 71-77
ServerInit ==
    /\ entry = "server"
    /\ args = [ url |-> "vimeo", watch_time |-> Some(MaxSampledWatch), custom_proxy |-> FALSE ]
    /\ Config = ConfigOf(<< MaxSampledWatch - 1, MaxSampledWatch >>, << 3, 2 >>, FALSE)
    /\ pace = "shortest"
    /\ VideoWatcherInit
    /\ NoCall
    /\ threaded \in BOOLEAN
    /\ handlers = [ r \in Requests |-> Waiting ]

\* start_session is executing for the request
Handling(r) == handlers[r].pc \notin { "waiting", "responded" }

\* the server takes a request and calls start_session, server.py 21-39: at
\* once in a thread of its own if threaded, after the request it is serving
\* if not; start_session builds args and constructs a VideoWatcher
StartSession(r) ==
    /\ handlers[r].pc = "waiting"
    /\ threaded \/ \A other \in Requests \ { r } : ~Handling(other)
    /\ \E watch_time_ \in RequestWatchTimes :
          handlers' = [ handlers EXCEPT ![r] = [ Waiting EXCEPT
                           !.pc = "initialize_components",
                           !.watch_time = Some(watch_time_) ] ]
    /\ UNCHANGED << inputs, utils, session, threaded >>

\* server.py 40 and 47-51: initialize_components, and the 500 response when
\* it returned False
HandlerInitialize(r) ==
    /\ handlers[r].pc = "initialize_components"
    /\ \E outcome \in { "True", "False" } :
          handlers' = [ handlers EXCEPT ![r] =
                          IF outcome = "True"
                          THEN [ @ EXCEPT !.pc = "run_session" ]
                          ELSE [ @ EXCEPT !.pc = "responded", !.status = "http500" ] ]
    /\ UNCHANGED << inputs, utils, session, threaded >>

\* server.py 41: run_session up to the loop of simulate_video_watching
\* (main.py 129, automation.py 122-138), or to its return when the
\* navigation or the lookup failed
HandlerRunSession(r) ==
    /\ handlers[r].pc = "run_session"
    /\ \E outcome \in { "ok", "fails" } :
          handlers' = [ handlers EXCEPT ![r] =
                          [ @ EXCEPT !.pc = IF outcome = "ok" THEN "loop" ELSE "cleanup",
                                     !.session_data.start_time = Some(IntTime(now)),
                                     !.start_time = 0,
                                     !.status = IF outcome = "ok" THEN @ ELSE "http200_failed" ] ]
    /\ UNCHANGED << inputs, utils, session, threaded >>

\* one iteration of the loop, automation.py 139-150, or its end, 152-153
HandlerLoop(r) ==
    /\ handlers[r].pc = "loop"
    /\ LET h == handlers[r] IN
       IF h.start_time < h.watch_time[1]
       THEN \E draw \in randint(5, 15) \cap TickDraws :
              handlers' = [ handlers EXCEPT ![r].start_time =
                              @ + tick_interval(draw, h.watch_time[1] - h.start_time) ]
       ELSE handlers' = [ handlers EXCEPT ![r].pc = "cleanup",
                                          ![r].status = "http200_success" ]
    /\ UNCHANGED << inputs, utils, session, threaded >>

\* server.py 42-46: cleanup and the response
HandlerCleanup(r) ==
    /\ handlers[r].pc = "cleanup"
    /\ handlers' = [ handlers EXCEPT ![r].pc = "responded" ]
    /\ UNCHANGED << inputs, utils, session, threaded >>

ServerNext ==
    \E r \in Requests :
        \/ StartSession(r)
        \/ HandlerInitialize(r)
        \/ HandlerRunSession(r)
        \/ HandlerLoop(r)
        \/ HandlerCleanup(r)

ServerSpec == ServerInit /\ [][ServerNext]_vars

(***************************************************************************)
(* Properties                                                              *)
(***************************************************************************)
Interrupted == hist.interrupted_at # "none"

\* run_session has returned to the entry point (or the process has ended)
SessionOver == pc \in { "run_session_returned", "cleanup", "done" } /\ returned # "unset"

LoopPcs == { "loop", "scroll_gate", "perform_random_scroll", "click_gate",
             "perform_random_click", "wait_interval" }

\* positions inside run_session
SessionPcs == { "run_session", "navigate_to_url", "find_video_element",
                "resolve_watch_time", "ensure_video_playing", "simulate_returned" }
              \cup LoopPcs

\* _find_video_element returned None
LookupFailed == hist.lookup \in { "timed_out", "raised" }

Sent(event_type) == { i \in DOMAIN events : events[i].event_type = event_type }

Count(method) == Cardinality({ i \in DOMAIN calls : calls[i] = method })

\* C1: if KeyboardInterrupt arrives while a session is in any state, then by
\* the time the entry point has finished close_browser and TorManager.stop
\* have each run exactly once on the browser and the Tor manager the watcher
\* holds, and none of them is left open; on both entry points.
C1_InterruptReleasesResources ==
    pc = "done" /\ hist.interrupted_at \in SessionPcs =>
        /\ browser # "None" => Count("close_browser") = 1 /\ browser # "live"
        /\ tor_manager # "None" => Count("stop") = 1 /\ tor_manager # "open"

\* C2, as claimed: whenever the loop of simulate_video_watching has
\* terminated normally, start_time (the elapsed counter) does not exceed the
\* requested watch time, for every requested watch time.
C2_ElapsedWithinRequested ==
    success = "True" => start_time <= watch_time[1]

\* C2, amended: whenever the loop has terminated normally, the elapsed
\* counter does not exceed the requested watch time if that is zero or more,
\* and is 0 (no tick ran) if it is negative.
C2_ElapsedWithinNonNegativeRequested ==
    success = "True" =>
        IF watch_time[1] >= 0 THEN start_time <= watch_time[1] ELSE start_time = 0

\* a session of two ticks or more, the last one clipped to the remaining time
C2_Witness ==
    /\ success = "True"
    /\ hist.ticks >= 2
    /\ hist.fixed_interval = -1
    /\ start_time = watch_time[1]

\* C3: when every video-selector lookup has timed out, the session ends with
\* success = False and the telemetry endpoint has received a session_error
\* event whose reason is "video_not_found".
C3_VideoNotFoundReported ==
    SessionOver /\ ~Interrupted /\ hist.lookup = "timed_out" /\ socionator # "None" =>
        /\ returned = "False"
        /\ \E i \in Sent("session_error") : events[i].metadata.error = "video_not_found"

\* C4: with scroll probability 1.0 and click probability 0.0, a session of
\* target duration T whose ticks all drew the interval d, d dividing T, that
\* completed normally has counted T/d scrolls and 0 clicks in
\* session_data['interactions'].
C4_ScrollsCounted ==
    /\ success = "True"
    /\ Config.SCROLL_PROBABILITY = 10 /\ Config.CLICK_PROBABILITY = 0
    /\ ~hist.interaction_raised
    /\ hist.fixed_interval > 0
    /\ watch_time[1] % hist.fixed_interval = 0
    => /\ session_data.interactions.scrolls = watch_time[1] \div hist.fixed_interval
       /\ session_data.interactions.clicks = 0

\* navigation, lookup, playback and every interaction of the session
\* succeeded, and the session is over
SessionWithoutFailure ==
    /\ SessionOver /\ ~Interrupted
    /\ hist.loop_entered
    /\ ~hist.playback_raised
    /\ ~hist.interaction_raised

\* C5, as claimed: a session in which navigation, lookup, playback and every
\* interaction succeed returns True and has sent exactly one session_start
\* event, exactly one completion report and no session_error event.
C5_OneStartOneCompletion ==
    SessionWithoutFailure =>
        /\ returned = "True"
        /\ Cardinality(Sent("session_start")) = 1
        /\ Cardinality(Sent("watch_session")) = 1
        /\ Sent("session_error") = {}

\* C5, amended: such a session returns True; when the telemetry client is
\* configured it has sent exactly one session_start event, exactly one
\* completion report and no session_error event, and when it is not
\* configured nothing was sent.
C5_OneStartOneCompletionIfConfigured ==
    SessionWithoutFailure =>
        /\ returned = "True"
        /\ IF socionator # "None"
           THEN /\ Cardinality(Sent("session_start")) = 1
                /\ Cardinality(Sent("watch_session")) = 1
                /\ Sent("session_error") = {}
           ELSE events = << >>

C5_Witness ==
    /\ SessionWithoutFailure
    /\ pc = "done"
    /\ socionator # "None"
    /\ hist.ticks >= 2

\* C6: on successful completion with an explicit watch time W (here W > 0,
\* so that the loop ran), the watch_time of the completion report equals W.
C6_ReportedWatchTimeIsExplicit ==
    args.watch_time # None /\ args.watch_time[1] > 0 =>
        \A i \in Sent("watch_session") :
            events[i].metadata.watch_time = args.watch_time[1]

\* C7: if the focus click or the play/pause keystroke raised, the session
\* never enters the interaction loop and simulate_video_watching never
\* returns True.
C7_PlaybackErrorFails ==
    hist.playback_raised => pc \notin LoopPcs /\ success # "True"

\* C8, as claimed (the playback failures it names are C7's): after a
\* failure raised in navigation, lookup or a scroll or click interaction,
\* run_session has returned False and no exception has left it.
C8_EveryFailureFailsSession ==
    /\ pc = "done" /\ ~Interrupted /\ ~hist.playback_raised
    /\ (hist.navigation_failed \/ LookupFailed \/ hist.interaction_raised)
    => returned = "False" /\ raised = "none"

\* C8, amended: no Exception raised during a session leaves run_session:
\* once the session was started run_session returns True or False to its
\* caller; it returns False after a failure of navigation or of the video
\* lookup (failures of playback, of a scroll or click and of telemetry are
\* swallowed and do not make it return False).
C8_FailuresNeverPropagate ==
    pc = "done" /\ ~Interrupted /\ session_data.start_time # None
    => /\ raised = "none"
       /\ returned \in { "True", "False" }
       /\ (hist.navigation_failed \/ LookupFailed => returned = "False")

\* an inverted watch-time range made random.randint raise inside
\* simulate_video_watching, and run_session returned False
C8_Witness ==
    /\ pc = "done" /\ ~Interrupted
    /\ Config.MIN_WATCH_TIME > Config.MAX_WATCH_TIME
    /\ args.watch_time = None
    /\ video_element # 0
    /\ returned = "False"
    /\ raised = "none"

\* C9: completion and failure exclude each other: no session sends both a
\* completion report and a session_error event, and every uninterrupted
\* session that has sent session_start has sent, when run_session returns,
\* exactly one of the two, the completion report if and only if it returns
\* True.
C9_ExactlyOneTerminalReport ==
    /\ Sent("watch_session") = {} \/ Sent("session_error") = {}
    /\ SessionOver /\ ~Interrupted /\ Sent("session_start") # {} =>
          /\ Cardinality(Sent("watch_session")) + Cardinality(Sent("session_error")) = 1
          /\ (returned = "True" <=> Sent("watch_session") # {})

C9_Witness ==
    /\ SessionOver /\ ~Interrupted
    /\ Sent("session_start") # {}
    /\ Sent("session_error") # {}
    /\ LookupFailed
    /\ returned = "False"

\* C10: a failure of the scroll or click primitive in a tick is swallowed:
\* the tick goes on (to the click gate, to the tick wait), the tick wait of
\* that tick advances the elapsed counter and returns to the loop test, and
\* an uninterrupted session in which such a failure happened ends with
\* run_session returning True.
C10_InteractionFailureSwallowed ==
    [][ /\ hist'.tick_raised /\ hist'.interrupted_at = "none" =>
              pc' \in { "click_gate", "perform_random_click", "wait_interval" }
        /\ hist.tick_raised /\ pc = "wait_interval" /\ hist'.interrupted_at = "none" =>
              start_time' > start_time /\ pc' = "loop"
        /\ hist'.interaction_raised /\ hist'.interrupted_at = "none"
           /\ pc' \in { "run_session_returned", "cleanup", "done" } =>
              returned' = "True" ]_vars

C10_Witness ==
    /\ pc = "done" /\ ~Interrupted
    /\ hist.interaction_raised
    /\ hist.scrolls = 0
    /\ hist.ticks >= 2
    /\ returned = "True"
    /\ start_time = watch_time[1]

\* a configuration the specification calls a configuration error
InvalidConfig ==
    \/ Config.SCROLL_PROBABILITY < 0 \/ Config.SCROLL_PROBABILITY > 10
    \/ Config.CLICK_PROBABILITY < 0 \/ Config.CLICK_PROBABILITY > 10
    \/ Config.MIN_INTERACTION_DELAY > Config.MAX_INTERACTION_DELAY
    \/ Config.MIN_WATCH_TIME > Config.MAX_WATCH_TIME

\* C11: under a configuration with a probability outside [0, 1] or a range
\* whose min exceeds its max no session reaches navigation: driver.get is
\* never about to be called and has never been called.
C11_InvalidConfigRejected ==
    InvalidConfig =>
        /\ pc \notin { "navigate_to_url", "find_video_element" }
        /\ ~hist.navigation_failed
        /\ hist.tried = << >>

\* C17: once the interaction loop is entered it terminates, whatever tick
\* intervals and gate outcomes are drawn, and simulate_video_watching then
\* returns True, unless the session is interrupted from outside.
C17_LoopTerminates ==
    pc = "loop" ~> (success = "True" \/ Interrupted)

\* a loop of three ticks or more, with a scroll performed, has returned True
C17_Witness ==
    /\ pc = "simulate_returned" /\ ~Interrupted
    /\ success = "True"
    /\ hist.ticks >= 3
    /\ hist.scrolls >= 1

\* C18: if navigation raised, no later step is performed (no selector is
\* waited for, no playback step, no tick, no scroll), the simulation does
\* not return True, no completion report is sent, and run_session, when it
\* returns, returns False.
C18_NavigationErrorStops ==
    hist.navigation_failed =>
        /\ pc \notin { "find_video_element", "resolve_watch_time", "ensure_video_playing" }
                      \cup LoopPcs
        /\ hist.tried = << >> /\ video_element = 0
        /\ ~hist.loop_entered /\ ~hist.playback_raised
        /\ hist.ticks = 0 /\ hist.scrolls = 0 /\ ~hist.interaction_raised
        /\ success # "True"
        /\ Sent("watch_session") = {}
        /\ (SessionOver /\ ~Interrupted => returned = "False")

C18_Witness ==
    /\ pc = "done" /\ ~Interrupted
    /\ hist.navigation_failed
    /\ returned = "False"
    /\ Sent("session_start") # {}
    /\ Sent("session_error") # {}

\* the selectors in their priority order
PriorityOrder ==
    << "video", "iframe[src*='youtube']", "iframe[src*='vimeo']", "#movie_player" >>

\* the selectors waited for so far are the first ones of the priority order,
\* in that order, and every wait but the last timed out
TriedInPriorityOrder ==
    /\ Len(hist.tried) <= Len(PriorityOrder)
    /\ \A i \in 1 .. Len(hist.tried) :
          /\ hist.tried[i][1] = PriorityOrder[i]
          /\ i < Len(hist.tried) => hist.tried[i][2] = "TimeoutException"

\* the element returned is the one of the selector waited for last, whose
\* wait found it
FirstMatchWins ==
    video_element # 0 =>
        /\ hist.lookup = "found"
        /\ video_element = Len(hist.tried)
        /\ hist.tried[video_element][2] = "found"

AllTimedOut ==
    /\ Len(hist.tried) = Len(PriorityOrder)
    /\ \A i \in 1 .. Len(hist.tried) : hist.tried[i][2] = "TimeoutException"

\* C20, as claimed: the selectors are tried in the priority order, the
\* first match is returned and nothing is tried after it, and lookup fails
\* only when all selectors have timed out.
C20_FailsOnlyWhenAllTimedOut ==
    /\ TriedInPriorityOrder
    /\ FirstMatchWins
    /\ LookupFailed => AllTimedOut

\* C20, amended: ... and lookup fails only when all selectors have timed
\* out or when the wait for a selector raised something other than a
\* timeout, after which no later selector is tried.
C20_FailsWhenAllTimedOutOrRaised ==
    /\ TriedInPriorityOrder
    /\ FirstMatchWins
    /\ LookupFailed =>
          \/ hist.lookup = "timed_out" /\ AllTimedOut
          \/ hist.lookup = "raised" /\ hist.tried[Len(hist.tried)][2] = "raises"
    /\ hist.lookup = "none" => pc \notin { "resolve_watch_time", "ensure_video_playing" }
                                          \cup LoopPcs

\* two selectors timed out and the third matched
C20_Witness ==
    /\ video_element = 3
    /\ Len(hist.tried) = 3
    /\ hist.tried[3] = << "iframe[src*='vimeo']", "found" >>
    /\ pc \in LoopPcs

\* C21: in every tick the scroll gate is evaluated exactly once and the
\* click gate exactly once, the scroll gate first, and the click gate is
\* evaluated whether the scroll gate fired or not and whether the scroll
\* attempt failed or not: between ticks both gates have been evaluated once
\* per tick, and inside a tick the scroll gate is one evaluation ahead until
\* the click gate has been evaluated.
C21_GatesOncePerTick ==
    /\ pc \in { "loop", "simulate_returned", "run_session_returned" } /\ ~Interrupted =>
          hist.scroll_gates = hist.ticks /\ hist.click_gates = hist.ticks
    /\ pc = "scroll_gate" =>
          hist.scroll_gates = hist.ticks /\ hist.click_gates = hist.ticks
    /\ pc \in { "perform_random_scroll", "click_gate" } =>
          hist.scroll_gates = hist.ticks + 1 /\ hist.click_gates = hist.ticks
    /\ pc \in { "perform_random_click", "wait_interval" } =>
          hist.scroll_gates = hist.ticks + 1 /\ hist.click_gates = hist.ticks + 1

\* a tick whose scroll attempt failed is at its wait, after the click gate
C21_Witness ==
    /\ pc = "wait_interval"
    /\ hist.tick_raised
    /\ hist.scrolls = 0
    /\ hist.ticks = 1
    /\ hist.click_gates = 2

\* the target duration has been resolved: the playback step is next or done
Resolved == pc = "ensure_video_playing" \/ hist.loop_entered

\* the resolved target: the explicit watch time when one was given, 0
\* included, otherwise a value of the configured range
TargetDuration ==
    /\ watch_time # None
    /\ IF args.watch_time # None
       THEN watch_time = args.watch_time
       ELSE Config.MIN_WATCH_TIME <= watch_time[1] /\ watch_time[1] <= Config.MAX_WATCH_TIME

\* C22: the target duration is the explicit watch time whenever one is given
\* (0 included), otherwise a value in [MIN_WATCH_TIME, MAX_WATCH_TIME]; it is
\* resolved once, before the loop, and no later step of the session changes it.
C22_TargetResolvedOnce ==
    [][ /\ Resolved => TargetDuration
        /\ Resolved' => TargetDuration'
        /\ Resolved => watch_time' = watch_time ]_vars

\* a session with the explicit watch time 0 has completed with the target 0
C22_Witness ==
    /\ args.watch_time = Some(0)
    /\ watch_time = Some(0)
    /\ success = "True"
    /\ pc = "done"

\* a session without a watch time has completed ticks with a sampled target
C22_WitnessSampled ==
    /\ args.watch_time = None
    /\ watch_time # None
    /\ hist.ticks > 0
    /\ pc = "done"

\* a completed session ran between ceil(T/15) and ceil(T/5) ticks
TickCountWithinBounds ==
    success = "True" /\ watch_time[1] >= 1 =>
        /\ hist.ticks * 15 >= watch_time[1]
        /\ (hist.ticks - 1) * 5 < watch_time[1]

\* C23: on each tick the elapsed counter (start_time) advances by exactly
\* min(interval, remaining), with interval in [5, 15] and remaining the target
\* minus the elapsed time; the counter is strictly increasing from tick to
\* tick and changes nowhere else in the loop; and a session with a target
\* T >= 1 that completes has run at least ceil(T/15) and at most ceil(T/5)
\* ticks.
C23_ElapsedAdvancesByClippedInterval ==
    [][ /\ pc = "wait_interval" /\ pc' = "loop" =>
              /\ \E interval \in 5 .. 15 :
                    start_time' - start_time = Min(interval, watch_time[1] - start_time)
              /\ start_time' > start_time
        /\ hist.loop_entered /\ ~(pc = "wait_interval" /\ pc' = "loop") =>
              start_time' = start_time
        /\ TickCountWithinBounds
        /\ TickCountWithinBounds' ]_vars

\* the longest explicit session has completed in the most ticks possible
C23_Witness ==
    /\ success = "True"
    /\ watch_time = Some(MaxExplicitWatch)
    /\ (hist.ticks - 1) * 5 < MaxExplicitWatch
    /\ hist.ticks * 5 >= MaxExplicitWatch

\* and a session has completed in the fewest ticks possible, the last clipped
C23_WitnessFewest ==
    /\ success = "True"
    /\ watch_time = Some(MaxExplicitWatch)
    /\ hist.ticks * 15 >= MaxExplicitWatch
    /\ (hist.ticks - 1) * 15 < MaxExplicitWatch
    /\ hist.fixed_interval = -1

\* a random scroll or click has been attempted, or a gate evaluated
Interacted ==
    \/ pc \in LoopPcs
    \/ hist.scroll_gates > 0 \/ hist.click_gates > 0
    \/ hist.ticks > 0 \/ hist.scrolls > 0 \/ hist.interaction_raised

\* C24: the steps of a session occur only in the order navigation, video
\* lookup, playback step, interaction loop, completion: a selector is looked
\* up only after navigation has succeeded; the playback step runs only with
\* a video element that was found; a random scroll or click happens only
\* after the playback step has run; and the session completes only after the
\* loop was entered.
C24_StepsInOrder ==
    /\ pc = "find_video_element" \/ hist.tried # << >> \/ hist.lookup # "none" =>
          hist.navigated /\ ~hist.navigation_failed
    /\ pc \in { "resolve_watch_time", "ensure_video_playing" } \/ hist.loop_entered =>
          /\ hist.navigated
          /\ hist.lookup = "found"
          /\ video_element # 0
    /\ Interacted => hist.loop_entered
    /\ success = "True" => hist.loop_entered /\ pc \notin LoopPcs

\* a session has gone through every step, with a scroll in its loop
C24_Witness ==
    /\ pc = "done"
    /\ success = "True"
    /\ hist.navigated
    /\ Len(hist.tried) >= 2
    /\ hist.loop_entered
    /\ hist.ticks >= 1
    /\ hist.scrolls >= 1

\* C30: when the loop terminates normally with a target T >= 1, the elapsed
\* counter equals T exactly; with an explicit target T <= 0 the loop runs no
\* tick at all (no gate is evaluated, nothing is waited for, the counter
\* stays 0), and the session still succeeds, after navigation, the lookup
\* and the playback step: simulate_video_watching returns True and, unless
\* interrupted, so does run_session.
C30_ElapsedEqualsTarget ==
    success = "True" =>
        /\ watch_time[1] >= 1 => start_time = watch_time[1] /\ hist.ticks >= 1
        /\ watch_time[1] <= 0 =>
              /\ watch_time = args.watch_time
              /\ start_time = 0
              /\ hist.ticks = 0 /\ hist.scroll_gates = 0 /\ hist.click_gates = 0
              /\ hist.scrolls = 0 /\ ~hist.interaction_raised
              /\ hist.navigated /\ hist.lookup = "found" /\ hist.loop_entered
        /\ SessionOver /\ ~Interrupted => returned = "True"

\* a session with a negative explicit target has returned True
C30_Witness ==
    /\ args.watch_time = Some(-5)
    /\ pc = "done"
    /\ success = "True"
    /\ returned = "True"
    /\ hist.ticks = 0

\* a session with a sampled target has ended with the counter on the target
C30_WitnessPositive ==
    /\ args.watch_time = None
    /\ pc = "done"
    /\ success = "True"
    /\ start_time = watch_time[1]
    /\ hist.ticks >= 2

\* initialize_components returned False or raised an Exception: the entry
\* point has finished without run_session having been called
InitializationFailed ==
    pc = "done" /\ ~Interrupted /\ returned = "unset" /\ session_data.start_time = None

\* C27: when initialize_components fails after it has acquired a resource
\* (the Tor controller connected but the browser launch failed, or the
\* controller connected but the validation failed), no acquired resource is
\* still held when the entry point returns, on the command line and on the
\* web server alike.
C27_AcquiredReleasedOnInitFailure ==
    InitializationFailed => tor_manager # "open" /\ browser # "live"

\* driver.get is about to be called or has been called
NavigationIssued == pc = "navigate_to_url" \/ hist.navigated \/ hist.navigation_failed

\* a completion report or a session_error has been sent
TerminalReportSent == Sent("watch_session") # { } \/ Sent("session_error") # { }

\* without a video URL run_session returns False, with no navigation and no
\* telemetry event
NoUrlNoNavigationNoEvent ==
    video_url = "" =>
        /\ events = << >>
        /\ ~NavigationIssued
        /\ SessionOver /\ ~Interrupted => returned = "False"

\* session_start is the first event, sent once
StartSentFirst ==
    /\ events # << >>
    /\ events[1].event_type = "session_start"
    /\ Sent("session_start") = { 1 }

\* C29, as claimed: when no video URL is available run_session returns
\* failure without any navigation and without any telemetry event; in every
\* other session session_start is sent before the first navigation and
\* before any terminal report.
C29_StartSentBeforeNavigation ==
    /\ NoUrlNoNavigationNoEvent
    /\ video_url # "" /\ (NavigationIssued \/ TerminalReportSent) => StartSentFirst

\* C29, amended: when no video URL is available run_session returns failure
\* without any navigation and without any telemetry event; in every other
\* session with the telemetry client configured, session_start is sent
\* before the first navigation and before any terminal report; with the
\* telemetry client not configured no event is sent at all.
C29_StartSentBeforeNavigationIfConfigured ==
    /\ NoUrlNoNavigationNoEvent
    /\ video_url # "" /\ (NavigationIssued \/ TerminalReportSent) =>
          IF Config.socionator_enabled THEN StartSentFirst ELSE events = << >>

\* a session with telemetry has sent session_start, navigated, and reported
C29_Witness ==
    /\ Config.socionator_enabled
    /\ video_url # ""
    /\ hist.navigated
    /\ Len(events) = 2
    /\ events[1].event_type = "session_start"
    /\ events[2].event_type = "session_error"
    /\ pc = "done"

\* a session with telemetry and no URL has returned False
C29_WitnessNoUrl ==
    /\ Config.socionator_enabled
    /\ socionator = "closed"
    /\ video_url = ""
    /\ returned = "False"
    /\ pc = "done"

\* the releases of the components the watcher holds, in the order of cleanup
ReleasesInOrder ==
    (IF browser # "None" THEN << "close_browser" >> ELSE << >>)
    \o (IF tor_manager # "None" THEN << "stop" >> ELSE << >>)
    \o (IF socionator # "None" THEN << "close" >> ELSE << >>)

\* C28: cleanup attempts the release of every component the watcher holds,
\* in the order browser, Tor controller, telemetry client, and an Exception
\* raised while releasing an earlier one does not prevent the later ones:
\* once cleanup has run, the releases called are those of all held
\* components, in that order, whichever of them raised.
C28_AllReleasesAttemptedInOrder ==
    hist.cleaned => calls = ReleasesInOrder

\* the browser's and the controller's release both raised and all three
\* releases were called
C28_Witness ==
    /\ hist.cleaned
    /\ hist.release_raised = { "close_browser", "stop" }
    /\ calls = << "close_browser", "stop", "close" >>

\* a telemetry call of the session failed or raised
TelemetryFailed == \E i \in DOMAIN hist.responses : hist.responses[i] # "ok"

\* C26: the outcome of a session does not depend on what the telemetry
\* calls do: every send is followed by the step that follows a successful
\* one (after session_start the navigation is issued), a session with a URL
\* is never aborted before simulate_video_watching has returned, and
\* run_session returns what simulate_video_watching returned, whether the
\* telemetry calls succeeded, returned failure, or raised.
C26_OutcomeIndependentOfTelemetry ==
    /\ Len(hist.responses) = Len(events)
    /\ ~Interrupted /\ Sent("session_start") # { } => NavigationIssued
    /\ SessionOver /\ ~Interrupted /\ video_url # "" =>
          /\ success \in { "True", "False" }
          /\ returned = success

\* a session whose two telemetry calls raised has succeeded, after a tick
C26_Witness ==
    /\ hist.responses = << "raises", "raises" >>
    /\ hist.ticks >= 1
    /\ success = "True"
    /\ returned = "True"
    /\ status = "http200_success"

\* a session whose telemetry calls were refused has failed as it would have
C26_WitnessRefused ==
    /\ hist.responses = << "bad_status", "bad_status" >>
    /\ hist.lookup = "timed_out"
    /\ returned = "False"
    /\ pc = "done"

(***************************************************************************)
(* Properties of the web server, under ServerSpec                          *)
(***************************************************************************)
\* run_session is executing for the request
InSession(r) == handlers[r].pc = "loop"

\* C25: exactly one session runs at a time within a process: the sessions of
\* two start_session requests handled by the web server never overlap.
C25_OneSessionAtATime ==
    \A r1 \in Requests, r2 \in Requests :
        r1 # r2 => ~(InSession(r1) /\ InSession(r2))

(***************************************************************************)
(* Properties of the utils.py functions, under UtilsSpec                   *)
(***************************************************************************)
GeneratedPath == call.fn = "generate_human_like_mouse_movement" /\ points # None

\* p is the whole number the quotient n / d (d > 0) truncates to
IsTruncation(p, n, d) ==
    IF n >= 0 THEN d * p <= n /\ n < d * (p + 1)
              ELSE d * (p - 1) < n /\ n <= d * p

\* point is the cubic Bezier formula at t = i / steps, truncated, for the
\* anchors and control points of the call
IsBezierPoint(point, i) ==
    /\ IsTruncation(point[1],
                    bezier(i, call.steps, call.start_coords[1], control_point1[1],
                           control_point2[1], call.end_coords[1]),
                    call.steps^3)
    /\ IsTruncation(point[2],
                    bezier(i, call.steps, call.start_coords[2], control_point1[2],
                           control_point2[2], call.end_coords[2]),
                    call.steps^3)

\* C12: for every delay range with 0 <= min <= max, min = 0 and max = 0
\* included, the delay generate_random_delay returns lies within [min, max].
C12_DelayWithinRange ==
    /\ call.fn = "generate_random_delay" /\ delay # None
    /\ 0 <= call.min_delay /\ call.min_delay <= call.max_delay
    => call.min_delay <= delay[1] /\ delay[1] <= call.max_delay

\* C13: for every start, end and control points the path has exactly `steps`
\* points (none for steps = 0), and its k-th point is the evaluation at
\* t = (k - 1) / steps: the points are in order of increasing t.
C13_PathHasStepsPoints ==
    GeneratedPath =>
        /\ Len(points[1]) = call.steps
        /\ \A k \in 1 .. Len(points[1]) : IsBezierPoint(points[1][k], k - 1)

C13_Witness ==
    /\ GeneratedPath
    /\ call.steps = 2^MaxStepsExponent
    /\ Len(points[1]) = call.steps
    /\ call.randint # << 0, 0, 0, 0 >>
    /\ \A j \in 1 .. Len(points[1]), k \in 1 .. Len(points[1]) :
          j # k => points[1][j] # points[1][k]

\* C14, as claimed: for steps > 0 the last point of the path equals the end
\* point given by the caller.
C14_LastPointIsEnd ==
    GeneratedPath /\ call.steps > 0 => points[1][Len(points[1])] = call.end_coords

\* C14, amended: for steps > 0 the last point of the path is the evaluation
\* at t = (steps - 1) / steps, truncated, which is short of the end point;
\* for steps = 1 it is the start point.
C14_LastPointShortOfEnd ==
    GeneratedPath /\ call.steps > 0 =>
        /\ IsBezierPoint(points[1][Len(points[1])], call.steps - 1)
        /\ call.steps = 1 => points[1][Len(points[1])] = call.start_coords

\* a path whose last point has a negative coordinate and is not the end point
C14_Witness ==
    /\ GeneratedPath
    /\ call.steps = 2^MaxStepsExponent
    /\ points[1][Len(points[1])] # call.end_coords
    /\ points[1][Len(points[1])][1] < 0

\* C15: for steps > 0 and every choice of the control points the first
\* point of the path is the start point.
C15_FirstPointIsStart ==
    GeneratedPath /\ call.steps > 0 => points[1][1] = call.start_coords

C15_Witness ==
    /\ GeneratedPath
    /\ call.steps > 1
    /\ call.start_coords # << 0, 0 >>
    /\ call.randint[1] # 0 /\ call.randint[4] # 0
    /\ points[1][1] = call.start_coords
    /\ points[1][2] # call.start_coords

\* C16: the gate fires if and only if the draw is strictly less than the
\* probability: never for probability 0, always for probability 1.
C16_GateFiresIffDrawBelow ==
    call.fn = "should_perform_action" /\ fired # None =>
        /\ fired[1] <=> call.random < call.probability
        /\ call.probability = 0 => ~fired[1]
        /\ call.probability = 10 => fired[1]

\* the largest draw fires the gate of probability 1
C16_Witness ==
    /\ call.fn = "should_perform_action" /\ fired # None
    /\ call.probability = 10 /\ call.random = 9
    /\ fired[1]

\* C19: the offset given to move_by_offset at step i is path point i minus
\* path point i - 1 (minus the start point at step 1), so that once the
\* movement is performed the pointer has moved from the start point to the
\* last path point.
C19_OffsetsAreDeltas ==
    GeneratedPath =>
        /\ \A i \in 1 .. Len(actions) :
              LET previous == IF i = 1 THEN call.start_coords ELSE points[1][i - 1]
              IN  actions[i] = << points[1][i][1] - previous[1],
                                  points[1][i][2] - previous[2] >>
        /\ pointer # None /\ call.steps > 0 => pointer[1] = points[1][Len(points[1])]
====
